---- MODULE Spec2Model ----
(***************************************************************************)
(* Model of ntpclock.py: the 3x7 bitmap font and its rasterizer            *)
(* (draw_char, draw_time_string), the Tkinter emulator device              *)
(* (display, _on_close, cleanup), the CanvasContext scope, and the         *)
(* run_clock / main control flow with their exception handlers.            *)
(***************************************************************************)
EXTENDS Integers, Sequences, FiniteSets, TLC

\* ------------------------------------------------------------------ bounds
MaxPolls == 3        \* polls of the clock loop explored per run
MaxStrLen == 3       \* length of the free-form strings given to draw_time_string
MaxX == 2            \* largest x offset given to draw_char
MaxY == 1            \* largest y offset given to draw_char / draw_time_string
MaxCalls == 4        \* device calls made by the device harness

\* --------------------------------------------------------- program constants
DisplayWidth == 32
DisplayHeight == 8
LeftMargin == 2
Sentinel == 0 - 1

\* ------------------------------------------------------------------- font
Digits == <<"0", "1", "2", "3", "4", "5", "6", "7", "8", "9">>

DIGIT_FONT ==
  [c \in {"0", "1", "2", "3", "4", "5", "6", "7", "8", "9", ":"} |->
     CASE c = "0" -> <<7, 5, 5, 5, 5, 5, 7>>
       [] c = "1" -> <<2, 6, 2, 2, 2, 2, 7>>
       [] c = "2" -> <<7, 1, 1, 7, 4, 4, 7>>
       [] c = "3" -> <<7, 1, 1, 7, 1, 1, 7>>
       [] c = "4" -> <<5, 5, 5, 7, 1, 1, 1>>
       [] c = "5" -> <<7, 4, 4, 7, 1, 1, 7>>
       [] c = "6" -> <<7, 4, 4, 7, 5, 5, 7>>
       [] c = "7" -> <<7, 1, 1, 1, 1, 1, 1>>
       [] c = "8" -> <<7, 5, 5, 7, 5, 5, 7>>
       [] c = "9" -> <<7, 5, 5, 7, 1, 1, 7>>
       [] c = ":" -> <<0, 0, 1, 0, 1, 0, 0>>]

isdigit(char) == \E i \in 1..Len(Digits) : Digits[i] = char

Pow2(n) == IF n = 0 THEN 1 ELSE IF n = 1 THEN 2 ELSE 4

\* row & (1 << bit_pos)
BitSet(row, bit_pos) == (row \div Pow2(bit_pos)) % 2 = 1

bit_pos_lsb(width, col_idx) == col_idx

bit_pos(width, col_idx) == width - 1 - col_idx

glyph_width(char) == IF isdigit(char) THEN 3 ELSE 1

\* draw_char: the coordinates handed to draw.point, and the returned width
draw_char(x, y, char) ==
  IF char \notin DOMAIN DIGIT_FONT
  THEN [points |-> {}, width |-> 0]
  ELSE LET pattern == DIGIT_FONT[char]
           width == glyph_width(char)
       IN [points |-> { <<x + col_idx, y + (row_idx - 1)>> :
                          <<row_idx, col_idx>> \in
                            { rc \in (1..Len(pattern)) \X (0..(width - 1)) :
                                BitSet(pattern[rc[1]], bit_pos(width, rc[2])) } },
           width |-> width]

in_font_always(char) == TRUE

\* the guard of draw_time_string's loop body: char in DIGIT_FONT
in_font(char) == char \in DOMAIN DIGIT_FONT

advance_no_gap(width) == width

\* x += width + 1
advance(width) == width + 1

RECURSIVE draw_loop(_, _, _, _, _, _)
draw_loop(time_str, i, x, y_offset, points, edges) ==
  IF i > Len(time_str)
  THEN [points |-> points, edges |-> edges, x |-> x]
  ELSE IF in_font(time_str[i])
       THEN LET r == draw_char(x, y_offset, time_str[i])
            IN draw_loop(time_str, i + 1, x + advance(r.width), y_offset,
                         points \cup r.points, Append(edges, x))
       ELSE draw_loop(time_str, i + 1, x, y_offset, points, edges)

\* draw_time_string: points drawn, left edge of each glyph drawn, final cursor
draw_time_string(time_str, y_offset) ==
  draw_loop(time_str, 1, LeftMargin, y_offset, {}, <<>>)

\* the 32x8 surface keeps only the points that fall inside it
Clip(points) ==
  { p \in points : p[1] >= 0 /\ p[1] < DisplayWidth /\ p[2] >= 0 /\ p[2] < DisplayHeight }

Pad2(n) == <<Digits[(n \div 10) + 1], Digits[(n % 10) + 1]>>

format_time_unpadded(dt) ==
  (IF dt.hour < 10 THEN <<Digits[dt.hour + 1]>> ELSE Pad2(dt.hour)) \o <<":">> \o
  (IF dt.minute < 10 THEN <<Digits[dt.minute + 1]>> ELSE Pad2(dt.minute)) \o <<":">> \o
  (IF dt.second < 10 THEN <<Digits[dt.second + 1]>> ELSE Pad2(dt.second))

format_time(dt) == Pad2(dt.hour) \o <<":">> \o Pad2(dt.minute) \o <<":">> \o Pad2(dt.second)

\* ------------------------------------------------------------- exceptions
None == "None"
CtrlC == "KeyboardInterrupt"
WindowClosed == "KeyboardInterrupt(Window closed)"
Error == "Exception"

IsKeyboardInterrupt(e) == e \in {CtrlC, WindowClosed}

\* what a call can raise on its own: nothing, a failure, or Ctrl+C during it
Raisable == {None, Error, CtrlC}

\* ------------------------------------------------------------------ inputs
Hours == {0, 23}
Minutes == {0, 59}
Seconds == {0, 9, 59}
Snapshots == [hour : Hours, minute : Minutes, second : Seconds]

NoTime == [hour |-> 0, minute |-> 0, second |-> 0]
NoCall == [called |-> FALSE, closedBefore |-> FALSE, raised |-> None, wrote |-> FALSE]
NoCtx == [block |-> None, push |-> None, out |-> None]
NoErr == [raised |-> FALSE, polls |-> 0, calls |-> 0]
NoOut == [points |-> {}, edges |-> <<>>, x |-> 0, width |-> 0]

VARIABLES
  pc,            \* position in main / run_clock
  hasDevice,     \* 'device' in locals() of main
  running,       \* TkinterEmulator._running
  destroyCount,  \* calls of root.destroy()
  cleanupCalls,  \* calls of device.cleanup()
  leds,          \* lit indicators of the emulator canvas
  displayCalls,  \* calls of device.display()
  lateWrite,     \* an indicator was written after root.destroy()
  lastDisplay,   \* outcome of the latest display() call
  last_second,   \* run_clock local
  now,           \* run_clock local: datetime.now() of the latest poll
  prev_second,   \* last_second as it was when the latest poll read the clock
  time_str,      \* run_clock local
  image,         \* CanvasContext.image (lit pixels)
  drawn,         \* characters drawn into image so far
  scopes,        \* CanvasContext scopes entered
  ctx,           \* exceptions of the latest scope: in the block, in the push, leaving
  exc,           \* exception in flight
  polls,         \* polls made
  callsAtPoll,   \* displayCalls when the latest poll read the clock
  handlers,      \* except clauses that ran
  topCaught,     \* times main's handler ran
  exitPending,   \* SystemExit raised by sys.exit(1)
  exitCode,      \* process exit status, -1 while running
  closedSignal,  \* display() raised the device-closed signal
  err,           \* first failure raised in the loop, with the counters at that time
  mode, in_str, in_y, in_char, in_x, done, out   \* rasterizer harness

devVars == <<running, destroyCount, cleanupCalls, leds, displayCalls, lateWrite,
             lastDisplay, closedSignal>>
loopVars == <<last_second, now, prev_second, time_str, image, drawn, scopes, ctx,
              polls, callsAtPoll>>
mainVars == <<pc, hasDevice, exc, handlers, topCaught, exitPending, exitCode, err>>
drawVars == <<mode, in_str, in_y, in_char, in_x, done, out>>
vars == <<devVars, loopVars, mainVars, drawVars>>

DevInit ==
  /\ running = FALSE /\ destroyCount = 0 /\ cleanupCalls = 0 /\ leds = {}
  /\ displayCalls = 0 /\ lateWrite = FALSE /\ lastDisplay = NoCall
  /\ closedSignal = FALSE

LoopInit ==
  /\ last_second = Sentinel /\ now = NoTime /\ prev_second = Sentinel
  /\ time_str = <<>> /\ image = {} /\ drawn = <<>> /\ scopes = 0 /\ ctx = NoCtx
  /\ polls = 0 /\ callsAtPoll = 0

MainInit ==
  /\ hasDevice = FALSE /\ exc = None /\ handlers = {} /\ topCaught = 0
  /\ exitPending = FALSE /\ exitCode = 0 - 1 /\ err = NoErr

DrawIdle ==
  /\ mode = "off" /\ in_str = <<>> /\ in_y = 0 /\ in_char = "0" /\ in_x = 0
  /\ done = FALSE /\ out = NoOut

\* ------------------------------------------------------ TkinterEmulator
display_closed_never(r) == FALSE

\* display: if not self._running
display_closed(r) == ~r

closed_signal_runtime == Error

\* display: raise KeyboardInterrupt("Window closed")
closed_signal == WindowClosed

cleanup_destroys_always(r) == TRUE

\* cleanup: if self._running
cleanup_destroys(r) == r

\* _on_close
on_close ==
  /\ running' = FALSE
  /\ destroyCount' = destroyCount + 1

\* display(image); close: a WM_DELETE_WINDOW event is pending when root.update()
\* runs; fail: what an indicator update or the redraw raises (a failure, or
\* Ctrl+C arriving during the call), None if nothing; wrote: the exception
\* came after the indicators were written
display(img, close, fail, wrote) ==
  /\ displayCalls' = displayCalls + 1
  /\ UNCHANGED cleanupCalls
  /\ IF display_closed(running)
     THEN /\ lastDisplay' = [called |-> TRUE, closedBefore |-> destroyCount > 0,
                             raised |-> closed_signal, wrote |-> FALSE]
          /\ closedSignal' = TRUE
          /\ UNCHANGED <<leds, running, destroyCount, lateWrite>>
     ELSE /\ lastDisplay' = [called |-> TRUE, closedBefore |-> destroyCount > 0,
                             raised |-> fail,
                             wrote |-> (fail = None \/ wrote)]
          /\ leds' = IF fail = None \/ wrote THEN img ELSE leds
          /\ lateWrite' = (lateWrite \/ ((fail = None \/ wrote) /\ destroyCount > 0))
          /\ UNCHANGED closedSignal
          /\ IF fail = None /\ close /\ destroyCount = 0
             THEN on_close
             ELSE UNCHANGED <<running, destroyCount>>

cleanup ==
  /\ cleanupCalls' = cleanupCalls + 1
  /\ IF cleanup_destroys(running)
     THEN /\ running' = FALSE
          /\ destroyCount' = destroyCount + 1
     ELSE UNCHANGED <<running, destroyCount>>
  /\ UNCHANGED <<leds, displayCalls, lateWrite, lastDisplay, closedSignal>>

\* ------------------------------------------------------- CanvasContext
exit_pushes_on_success(exc_type) == exc_type = None

\* __exit__: self.device.display(self.image), whatever exc_type is
exit_pushes(exc_type) == TRUE

exit_suppresses_all(exc_type) == TRUE

\* __exit__: return False
exit_suppresses(exc_type) == FALSE

\* ------------------------------------------------------------ run_clock
second_changed_always(second, last) == TRUE

\* if now.second != last_second
second_changed(second, last) == second # last

run_clock_catches_all(e) == TRUE

\* except KeyboardInterrupt
run_clock_catches(e) == IsKeyboardInterrupt(e)

Init ==
  /\ pc = "start"
  /\ DevInit /\ LoopInit /\ MainInit /\ DrawIdle

\* main: device = get_device(emulator=True); run_clock(device) up to the loop
GetDevice ==
  /\ pc = "start"
  /\ hasDevice' = TRUE
  /\ running' = TRUE
  /\ leds' = {}
  /\ last_second' = Sentinel
  /\ pc' = "poll"
  /\ UNCHANGED <<destroyCount, cleanupCalls, displayCalls, lateWrite, lastDisplay,
                 closedSignal, now, prev_second, time_str, image, drawn, scopes, ctx,
                 polls, callsAtPoll, exc, handlers, topCaught, exitPending, exitCode,
                 err, drawVars>>

\* main: get_device raises (import or construction failure)
GetDeviceFail ==
  /\ pc = "start"
  /\ exc' = Error
  /\ pc' = "raise_main"
  /\ UNCHANGED <<devVars, loopVars, hasDevice, handlers, topCaught, exitPending,
                 exitCode, err, drawVars>>

\* run_clock: now = datetime.now(); the test on the second; format_time;
\* entering "with canvas(device) as draw"
Poll(t) ==
  /\ pc = "poll"
  /\ polls < MaxPolls
  /\ now' = t
  /\ polls' = polls + 1
  /\ prev_second' = last_second
  /\ callsAtPoll' = displayCalls
  /\ IF second_changed(t.second, last_second)
     THEN /\ last_second' = t.second
          /\ time_str' = format_time(t)
          /\ image' = {}
          /\ drawn' = <<>>
          /\ scopes' = scopes + 1
          /\ ctx' = NoCtx
          /\ pc' = "draw"
     ELSE /\ pc' = "sleep"
          /\ UNCHANGED <<last_second, time_str, image, drawn, scopes, ctx>>
  /\ UNCHANGED <<devVars, hasDevice, exc, handlers, topCaught, exitPending, exitCode,
                 err, drawVars>>

\* run_clock: reading the clock raises
PollFail ==
  /\ pc = "poll"
  /\ exc' = Error
  /\ err' = IF err.raised THEN err
            ELSE [raised |-> TRUE, polls |-> polls, calls |-> displayCalls]
  /\ pc' = "raise_rc"
  /\ UNCHANGED <<devVars, loopVars, hasDevice, handlers, topCaught, exitPending,
                 exitCode, drawVars>>

\* run_clock: Ctrl+C while polling or sleeping
Interrupt ==
  /\ pc \in {"poll", "sleep"}
  /\ exc' = CtrlC
  /\ pc' = "raise_rc"
  /\ UNCHANGED <<devVars, loopVars, hasDevice, handlers, topCaught, exitPending,
                 exitCode, err, drawVars>>

\* run_clock: draw_time_string(draw, time_str, y_offset=0) runs to its end
Draw ==
  /\ pc = "draw"
  /\ image' = Clip(image \cup draw_time_string(time_str, 0).points)
  /\ drawn' = time_str
  /\ pc' = "exit_ctx"
  /\ UNCHANGED <<devVars, last_second, now, prev_second, time_str, scopes, ctx, polls,
                 callsAtPoll, hasDevice, exc, handlers, topCaught, exitPending,
                 exitCode, err, drawVars>>

\* run_clock: Ctrl+C inside the with block, after k characters were drawn
DrawInterrupt(k) ==
  /\ pc = "draw"
  /\ image' = Clip(image \cup draw_time_string(SubSeq(time_str, 1, k), 0).points)
  /\ drawn' = SubSeq(time_str, 1, k)
  /\ ctx' = [ctx EXCEPT !.block = CtrlC]
  /\ pc' = "exit_ctx"
  /\ UNCHANGED <<devVars, last_second, now, prev_second, time_str, scopes, polls,
                 callsAtPoll, hasDevice, exc, handlers, topCaught, exitPending,
                 exitCode, err, drawVars>>

\* CanvasContext.__exit__, and where control goes from the with statement
CanvasExit(close, fail, wrote) ==
  /\ pc = "exit_ctx"
  /\ IF exit_pushes(ctx.block)
     THEN display(image, close, fail, wrote)
     ELSE /\ lastDisplay' = NoCall
          /\ UNCHANGED <<running, destroyCount, cleanupCalls, leds, displayCalls,
                         lateWrite, closedSignal>>
  /\ LET push == lastDisplay'.raised
         leaving == IF push # None THEN push
                    ELSE IF exit_suppresses(ctx.block) THEN None
                    ELSE ctx.block
     IN /\ ctx' = [block |-> ctx.block, push |-> push, out |-> leaving]
        /\ exc' = leaving
        /\ err' = IF push = Error /\ ~err.raised
                  THEN [raised |-> TRUE, polls |-> polls, calls |-> displayCalls']
                  ELSE err
        /\ pc' = IF leaving = None THEN "sleep" ELSE "raise_rc"
  /\ UNCHANGED <<last_second, now, prev_second, time_str, image, drawn, scopes, polls,
                 callsAtPoll, hasDevice, handlers, topCaught, exitPending, exitCode,
                 drawVars>>

\* run_clock: time.sleep(0.01)
Sleep ==
  /\ pc = "sleep"
  /\ pc' = "poll"
  /\ UNCHANGED <<devVars, loopVars, hasDevice, exc, handlers, topCaught, exitPending,
                 exitCode, err, drawVars>>

\* run_clock: except KeyboardInterrupt: print("Clock stopped."), then return
RunClockExcept ==
  /\ pc = "raise_rc"
  /\ run_clock_catches(exc)
  /\ handlers' = handlers \cup {"run_clock"}
  /\ exc' = None
  /\ pc' = "finally"
  /\ UNCHANGED <<devVars, loopVars, hasDevice, topCaught, exitPending, exitCode, err,
                 drawVars>>

\* run_clock: any other exception leaves run_clock
RunClockPropagate ==
  /\ pc = "raise_rc"
  /\ ~run_clock_catches(exc)
  /\ pc' = "raise_main"
  /\ UNCHANGED <<devVars, loopVars, hasDevice, exc, handlers, topCaught, exitPending,
                 exitCode, err, drawVars>>

\* main: except ImportError / except Exception: print, sys.exit(1)
MainExcept ==
  /\ pc = "raise_main"
  /\ exc = Error
  /\ topCaught' = topCaught + 1
  /\ handlers' = handlers \cup {"main"}
  /\ exitPending' = TRUE
  /\ exc' = None
  /\ pc' = "finally"
  /\ UNCHANGED <<devVars, loopVars, hasDevice, exitCode, err, drawVars>>

\* main: finally: if 'device' in locals(): device.cleanup(); then the process ends
MainFinally ==
  /\ pc = "finally"
  /\ IF hasDevice THEN cleanup ELSE UNCHANGED devVars
  /\ exitCode' = IF exitPending THEN 1 ELSE 0
  /\ pc' = "exited"
  /\ UNCHANGED <<loopVars, hasDevice, exc, handlers, topCaught, exitPending, err,
                 drawVars>>

Next ==
  \/ GetDevice
  \/ GetDeviceFail
  \/ \E t \in Snapshots : Poll(t)
  \/ PollFail
  \/ Interrupt
  \/ Draw
  \/ \E k \in 0..Len(time_str) : DrawInterrupt(k)
  \/ \E close \in BOOLEAN, fail \in Raisable, wrote \in BOOLEAN : CanvasExit(close, fail, wrote)
  \/ Sleep
  \/ RunClockExcept
  \/ RunClockPropagate
  \/ MainExcept
  \/ MainFinally

Spec == Init /\ [][Next]_vars

\* ------------------------------------------------- device call sequences
\* The emulator's methods called in any order on a freshly built device.
HarnessImages == { Clip(draw_time_string(format_time(t), 0).points) : t \in Snapshots }

DeviceInit ==
  /\ pc = "device"
  /\ running = TRUE /\ destroyCount = 0 /\ cleanupCalls = 0 /\ leds = {}
  /\ displayCalls = 0 /\ lateWrite = FALSE /\ lastDisplay = NoCall
  /\ closedSignal = FALSE
  /\ LoopInit
  /\ hasDevice = TRUE /\ exc = None /\ handlers = {} /\ topCaught = 0
  /\ exitPending = FALSE /\ exitCode = 0 - 1 /\ err = NoErr
  /\ DrawIdle

CallDisplay(img, close, fail, wrote) ==
  /\ pc = "device"
  /\ displayCalls + cleanupCalls < MaxCalls
  /\ display(img, close, fail, wrote)
  /\ exc' = lastDisplay'.raised
  /\ UNCHANGED <<loopVars, pc, hasDevice, handlers, topCaught, exitPending, exitCode,
                 err, drawVars>>

CallCleanup ==
  /\ pc = "device"
  /\ displayCalls + cleanupCalls < MaxCalls
  /\ cleanup
  /\ exc' = None
  /\ UNCHANGED <<loopVars, pc, hasDevice, handlers, topCaught, exitPending, exitCode,
                 err, drawVars>>

DeviceNext ==
  \/ \E img \in HarnessImages, close \in BOOLEAN, fail \in Raisable, wrote \in BOOLEAN :
       CallDisplay(img, close, fail, wrote)
  \/ CallCleanup

DeviceSpec == DeviceInit /\ [][DeviceNext]_vars

\* ------------------------------------------------------ rasterizer calls
LayoutDigits == {"0", "1", "8"}
FreeChars == {"1", ":", " ", "A"}
GlyphChars == DOMAIN DIGIT_FONT \cup {" ", "A"}

TimeShaped ==
  { <<a, b, ":", c, d, ":", e, f>> :
      a \in LayoutDigits, b \in LayoutDigits, c \in LayoutDigits,
      d \in LayoutDigits, e \in LayoutDigits, f \in LayoutDigits }

FreeStrings == UNION { [1..n -> FreeChars] : n \in 0..MaxStrLen }

DrawInit ==
  /\ pc = "draw_calls"
  /\ DevInit /\ LoopInit /\ MainInit
  /\ done = FALSE /\ out = NoOut
  /\ \/ /\ mode = "layout"
        /\ in_str \in TimeShaped \cup FreeStrings
        /\ in_y \in 0..MaxY
        /\ in_char = "0" /\ in_x = 0
     \/ /\ mode = "glyph"
        /\ in_char \in GlyphChars
        /\ in_x \in 0..MaxX
        /\ in_y \in 0..MaxY
        /\ in_str = <<>>

CallDrawTimeString ==
  /\ mode = "layout" /\ ~done
  /\ LET r == draw_time_string(in_str, in_y)
     IN out' = [points |-> r.points, edges |-> r.edges, x |-> r.x, width |-> 0]
  /\ done' = TRUE
  /\ UNCHANGED <<devVars, loopVars, mainVars, mode, in_str, in_y, in_char, in_x>>

CallDrawChar ==
  /\ mode = "glyph" /\ ~done
  /\ LET r == draw_char(in_x, in_y, in_char)
     IN out' = [points |-> r.points, edges |-> <<>>, x |-> 0, width |-> r.width]
  /\ done' = TRUE
  /\ UNCHANGED <<devVars, loopVars, mainVars, mode, in_str, in_y, in_char, in_x>>

DrawNext == CallDrawTimeString \/ CallDrawChar

DrawSpec == DrawInit /\ [][DrawNext]_vars

\* ================================================================ claims
InScope == pc \in {"draw", "exit_ctx"}

\* C1: once main holds a device, cleanup runs exactly once and the window is
\* destroyed exactly once by the time the process has exited, on every exit
\* path; the window is never destroyed twice.
C1_ReleaseExactlyOnce ==
  /\ destroyCount <= 1
  /\ cleanupCalls <= 1
  /\ (pc = "exited" /\ hasDevice) =>
       (cleanupCalls = 1 /\ destroyCount = 1 /\ ~running)

C1_Witness ==
  /\ pc = "exited" /\ hasDevice
  /\ handlers = {"run_clock"} /\ ~closedSignal
  /\ polls > 0 /\ cleanupCalls = 1 /\ destroyCount = 1

\* C2: a display call made once the window has been destroyed raises the
\* device-closed signal and leaves every indicator as it was.
C2_NoRenderAfterRelease ==
  [][(displayCalls' = displayCalls + 1 /\ destroyCount > 0) =>
       (leds' = leds /\ lastDisplay'.raised = WindowClosed /\ exc' = WindowClosed)]_vars

C2_Witness ==
  /\ pc = "device"
  /\ cleanupCalls > 0 /\ destroyCount = 1
  /\ lastDisplay.called /\ lastDisplay.closedBefore
  /\ exc = WindowClosed /\ leds # {}

\* C3: a poll that observes the same second as the previous poll makes no
\* display call: the count of display calls stays what it was at that poll.
C3_SameSecondNoRender ==
  (polls > 0 /\ now.second = prev_second) =>
    (displayCalls = callsAtPoll /\ ~InScope)

C3_Witness ==
  /\ polls > 1 /\ now.second = prev_second /\ pc = "sleep"
  /\ displayCalls = 1

Val(c) == CHOOSE d \in 0..9 : Digits[d + 1] = c

Decodes(str, t) ==
  /\ Len(str) = 8
  /\ str[3] = ":" /\ str[6] = ":"
  /\ \A i \in {1, 2, 4, 5, 7, 8} : isdigit(str[i])
  /\ 10 * Val(str[1]) + Val(str[2]) = t.hour
  /\ 10 * Val(str[4]) + Val(str[5]) = t.minute
  /\ 10 * Val(str[7]) + Val(str[8]) = t.second

\* C4: a poll that observes a second different from the last one (the first
\* poll and the 59 -> 0 rollover included) is followed by exactly one display
\* call before the next poll, and the string drawn is the zero-padded
\* HH:MM:SS of that poll's hour, minute and second.
C4_ChangedSecondRendersOnce ==
  (polls > 0 /\ now.second # prev_second) =>
    /\ InScope => (displayCalls = callsAtPoll /\ Decodes(time_str, now))
    /\ pc \in {"sleep", "poll"} =>
         /\ displayCalls = callsAtPoll + 1
         /\ Decodes(drawn, now)
         /\ lastDisplay.raised = None
         /\ leds = image

C4_Witness ==
  /\ pc = "sleep" /\ polls = 2 /\ displayCalls = 2
  /\ prev_second = 59
  /\ now = [hour |-> 0, minute |-> 0, second |-> 0]
  /\ drawn = <<"0", "0", ":", "0", "0", ":", "0", "0">>

PushedOncePerScope ==
  pc \in {"poll", "sleep", "draw", "exit_ctx", "raise_rc", "raise_main", "finally", "exited"} =>
    displayCalls = IF InScope THEN scopes - 1 ELSE scopes

\* C5 as stated: one push per scope, and an exception raised in the block is
\* the exception that leaves the scope.
C5_Original ==
  /\ PushedOncePerScope
  /\ (~InScope /\ ctx.block # None) => ctx.out = ctx.block

\* C5 amended: every scope makes exactly one display call when it is left,
\* whether the block ended normally or raised; the block's exception leaves
\* the scope when the display call returns normally, and the display call's
\* own exception leaves the scope when it raises.
C5_PushOnceOnEveryExit ==
  /\ PushedOncePerScope
  /\ (~InScope /\ ctx.block # None /\ ctx.push = None) => ctx.out = ctx.block
  /\ (~InScope /\ ctx.push # None) => ctx.out = ctx.push

C5_Witness ==
  /\ pc = "raise_rc" /\ scopes = 1 /\ displayCalls = 1
  /\ ctx.block = CtrlC /\ ctx.push = None /\ ctx.out = CtrlC /\ exc = CtrlC

\* C6: once display has raised the device-closed signal, the signal is caught
\* by run_clock's interrupt handler and by no other handler, and the process
\* exits with status 0.
C6_ClosedSignalIsCleanStop ==
  closedSignal =>
    /\ pc \in {"raise_rc", "finally", "exited"}
    /\ pc = "raise_rc" => exc = WindowClosed
    /\ pc \in {"finally", "exited"} =>
         (handlers = {"run_clock"} /\ topCaught = 0 /\ ~exitPending)
    /\ pc = "exited" => exitCode = 0

C6_Witness ==
  /\ pc = "exited" /\ closedSignal /\ exitCode = 0
  /\ handlers = {"run_clock"} /\ lastDisplay.closedBefore

\* C7: after a failure raised by a poll or a display call in the loop there is
\* no further poll and no further display call; the failure leaves run_clock,
\* main's handler catches it once, the device is released and the exit status
\* is not 0.
C7_FailureNotRetried ==
  err.raised =>
    /\ polls = err.polls /\ displayCalls = err.calls
    /\ pc \in {"raise_rc", "raise_main", "finally", "exited"}
    /\ pc \in {"raise_rc", "raise_main"} => exc = Error
    /\ pc \in {"finally", "exited"} =>
         (topCaught = 1 /\ handlers = {"main"} /\ exitPending)
    /\ pc = "exited" =>
         (exitCode # 0 /\ cleanupCalls = 1 /\ destroyCount = 1 /\ ~running)

C7_Witness ==
  /\ pc = "exited" /\ err.raised /\ exitCode = 1
  /\ lastDisplay.raised = Error /\ topCaught = 1 /\ destroyCount = 1

IsTimeShaped(str) ==
  /\ Len(str) = 8
  /\ str[3] = ":" /\ str[6] = ":"
  /\ \A i \in {1, 2, 4, 5, 7, 8} : isdigit(str[i])

Columns(points) == { p[1] : p \in points }

\* C8: for a string of shape DD:DD:DD the glyphs are drawn with left edges
\* 2, 6, 10, 12, 16, 20, 22, 26 and the lit columns span exactly 2..28.
C8_GlyphLeftEdges ==
  (mode = "layout" /\ done /\ IsTimeShaped(in_str)) =>
    /\ out.edges = <<2, 6, 10, 12, 16, 20, 22, 26>>
    /\ Columns(out.points) \subseteq 2..28
    /\ 2 \in Columns(out.points) /\ 28 \in Columns(out.points)
    /\ out.x = 30

C8_Witness ==
  /\ mode = "layout" /\ done
  /\ in_str = <<"1", "8", ":", "0", "1", ":", "8", "0">>
  /\ out.edges = <<2, 6, 10, 12, 16, 20, 22, 26>>

NumDigits(str) == Cardinality({ i \in 1..Len(str) : isdigit(str[i]) })
NumColons(str) == Cardinality({ i \in 1..Len(str) : str[i] = ":" })
NumUnknown(str) == Len(str) - NumDigits(str) - NumColons(str)

RECURSIVE Known(_)
Known(str) ==
  IF str = <<>> THEN <<>>
  ELSE IF isdigit(Head(str)) \/ Head(str) = ":"
       THEN <<Head(str)>> \o Known(Tail(str))
       ELSE Known(Tail(str))

\* C9 as stated: every character outside the font advances the cursor by 1.
C9_Original ==
  (mode = "layout" /\ done) =>
    out.x = 2 + 4 * NumDigits(in_str) + 2 * NumColons(in_str) + NumUnknown(in_str)

\* C9 amended: a character outside the font draws nothing and does not move
\* the cursor; the glyphs after it are drawn where they would be if the
\* character were absent.
C9_UnknownCharSkipped ==
  (mode = "layout" /\ done) =>
    /\ out.x = 2 + 4 * NumDigits(in_str) + 2 * NumColons(in_str)
    /\ Len(out.edges) = NumDigits(in_str) + NumColons(in_str)
    /\ out.edges = draw_time_string(Known(in_str), in_y).edges
    /\ out.points = draw_time_string(Known(in_str), in_y).points

C9_Witness ==
  /\ mode = "layout" /\ done
  /\ in_str = <<"A", "1", " ">>
  /\ out.edges = <<2>> /\ out.x = 6

\* The rows of each glyph as written in the font table, leftmost binary digit first.
FontRows ==
  [c \in {"0", "1", "2", "3", "4", "5", "6", "7", "8", "9", ":"} |->
     CASE c = "0" -> <<<<1,1,1>>, <<1,0,1>>, <<1,0,1>>, <<1,0,1>>, <<1,0,1>>, <<1,0,1>>, <<1,1,1>>>>
       [] c = "1" -> <<<<0,1,0>>, <<1,1,0>>, <<0,1,0>>, <<0,1,0>>, <<0,1,0>>, <<0,1,0>>, <<1,1,1>>>>
       [] c = "2" -> <<<<1,1,1>>, <<0,0,1>>, <<0,0,1>>, <<1,1,1>>, <<1,0,0>>, <<1,0,0>>, <<1,1,1>>>>
       [] c = "3" -> <<<<1,1,1>>, <<0,0,1>>, <<0,0,1>>, <<1,1,1>>, <<0,0,1>>, <<0,0,1>>, <<1,1,1>>>>
       [] c = "4" -> <<<<1,0,1>>, <<1,0,1>>, <<1,0,1>>, <<1,1,1>>, <<0,0,1>>, <<0,0,1>>, <<0,0,1>>>>
       [] c = "5" -> <<<<1,1,1>>, <<1,0,0>>, <<1,0,0>>, <<1,1,1>>, <<0,0,1>>, <<0,0,1>>, <<1,1,1>>>>
       [] c = "6" -> <<<<1,1,1>>, <<1,0,0>>, <<1,0,0>>, <<1,1,1>>, <<1,0,1>>, <<1,0,1>>, <<1,1,1>>>>
       [] c = "7" -> <<<<1,1,1>>, <<0,0,1>>, <<0,0,1>>, <<0,0,1>>, <<0,0,1>>, <<0,0,1>>, <<0,0,1>>>>
       [] c = "8" -> <<<<1,1,1>>, <<1,0,1>>, <<1,0,1>>, <<1,1,1>>, <<1,0,1>>, <<1,0,1>>, <<1,1,1>>>>
       [] c = "9" -> <<<<1,1,1>>, <<1,0,1>>, <<1,0,1>>, <<1,1,1>>, <<0,0,1>>, <<0,0,1>>, <<1,1,1>>>>
       [] c = ":" -> <<<<0>>, <<0>>, <<1>>, <<0>>, <<1>>, <<0>>, <<0>>>>]

\* C10: for a character of the font, draw_char lights exactly the pixels
\* (x + col, y + row) whose binary digit, counted from the left within the
\* declared width, is 1 in row `row` of the glyph, and returns 3 for a digit
\* and 1 for the colon; for any other character it lights nothing and returns 0.
C10_GlyphPixels ==
  (mode = "glyph" /\ done) =>
    IF in_char \in DOMAIN FontRows
    THEN /\ out.width = Len(FontRows[in_char][1])
         /\ out.width = (IF in_char = ":" THEN 1 ELSE 3)
         /\ Len(FontRows[in_char]) = 7
         /\ out.points =
              { <<in_x + (col - 1), in_y + (row - 1)>> :
                  <<row, col>> \in
                    { rc \in (1..7) \X (1..Len(FontRows[in_char][1])) :
                        FontRows[in_char][rc[1]][rc[2]] = 1 } }
    ELSE out.width = 0 /\ out.points = {}

C10_Witness ==
  /\ mode = "glyph" /\ done
  /\ in_char = "1" /\ in_x = 2 /\ in_y = 1
  /\ out.width = 3
  /\ <<2, 2>> \in out.points /\ <<4, 2>> \notin out.points
====
